---- MODULE Spec2Model ----
(***************************************************************************)
(* A model of gwr's watch-stream multiplexing engine:                      *)
(*   - MarshaledDataSource / marshaledWatcher / defaultFrameWatcher        *)
(*     (marshaled.go): the per-format fan-out of emitted items to the      *)
(*     attached io.Writers, with compaction of the writer list on failure; *)
(*   - chanBuf (protocol/chan_buf.go): the coalescing buffered writer.     *)
(*                                                                         *)
(* Go slices are modelled as sequences, with Go index i at position i+1.   *)
(* An io.Writer is a writer id; what was written to it is kept in out.     *)
(***************************************************************************)
EXTENDS Integers, Sequences, FiniteSets, TLC

\* ----------------------------------------------------------------- bounds
\* Number of io.Writers; a fanout driven directly holds up to NumWriters.
NumWriters == 3
\* Number of Watch calls on the MarshaledDataSource in one behaviour, each
\* with a writer of its own.
MaxWatch == 2
\* Number of items the source emits in one behaviour.
MaxEmits == 2
\* Number of items handed to a directly driven fanout in one behaviour.
MaxItems == 3

\* Number of calls through the indirect server handle in one behaviour.
MaxOps == 3

\* Longest byte stream a client sends on a connection.
MaxStream == 3

\* Number of goroutines that call chanBuf.Write.
NumProducers == 2
\* Number of Write calls on the chanBuf in one behaviour.
MaxWrites == 2
\* Longest payload of one Write, in bytes.
MaxLen == 2
\* Capacity of the ready channel.
ChanCap == 1

Writers == 1..NumWriters

Producers == 1..NumProducers

\* The keys of mds.watchers: the two default formats of NewMarshaledDataSource.
Formats == {"json", "text"}
\* Format names a caller may pass to Watch.
FormatNames == {"json", "JSON", "text", "xml"}

Nil == "nil"
\* What source.GetInit() returns when it has initial data.
Snap == "snapshot"

VARIABLES
    writers,      \* [Formats -> Seq(Writers)]: defaultFrameWatcher.writers
    watchers,     \* [Formats -> Seq(Formats)]: marshaledWatcher.watchers; an
                  \* entry f stands for the pointer &gw.dfw of format f
    watching,     \* MarshaledDataSource.watching
    srcHolds,     \* the source's current watcher is mds.emit
    srcWatchCalls,\* number of source.Watch(mds.emit) calls so far
    out,          \* [Writers -> Seq([buf, ok])]: every Write call on a writer
    nextW,        \* next unused writer id
    nEmit,        \* number of items emitted so far
    last          \* the last completed call: its inputs, result and pre-state

mdsVars == <<writers, watchers, watching, srcHolds, srcWatchCalls, out, nextW, nEmit, last>>

\* The compaction applied to a list and a set of failing positions.
VARIABLES
    cList,        \* the list before the call
    cF,           \* the positions that fail
    cDone,        \* the compaction has run
    cWriters,     \* dfw.writers after writeToAll
    cWatchers     \* gw.watchers after the compaction of marshaledWatcher.emit

cmpVars == <<cList, cF, cDone, cWriters, cWatchers>>

\* chanBuf and the goroutines that use it.
VARIABLES
    cbBuf,        \* the bytes.Buffer of the chanBuf
    cbClosed,     \* chanBuf.closed
    cbPending,    \* chanBuf.pending
    cbP,          \* chanBuf.p: the slice the last drain returned
    cbPCap,       \* cap(chanBuf.p)
    ready,        \* number of references to the chanBuf in the ready channel
    wr,           \* [Producers -> the producer's Write call and its result]
    cpc,          \* where the caller of close() is
    conPc,        \* where the consumer is
    lastCS,       \* the last critical section on the chanBuf's mutex
    accepted,     \* payloads of the Writes that returned no error, in lock order
    drained,      \* what the drains returned, concatenated
    nCalls,       \* Write calls so far
    nSent,        \* sends on ready so far
    nDrains,      \* drains so far
    okSince,      \* Writes of at least one byte accepted since the last drain
    decSince,     \* of those, the ones that chose to notify
    sentSince,    \* sends on ready since the last drain
    drainSaw      \* sentSince when the last drain ran

bufVars == <<cbBuf, cbClosed, cbPending, cbP, cbPCap, ready, wr, cpc, conPc, lastCS,
             accepted, drained, nCalls, nSent, nDrains, okSince, decSince, sentSince,
             drainSaw>>

\* A Watch call and an emit call that run in two goroutines.
VARIABLES
    wt,           \* the goroutine in MarshaledDataSource.Watch: pc and locals
    et            \* the goroutine in MarshaledDataSource.emit: pc and locals

raceVars == <<wt, et>>

\* What NewMarshaledDataSource was given and made of it.
VARIABLES
    formats,      \* the keys of mds.formats, the map the caller passed
    formatNames   \* mds.formatNames, what Formats() returns

cfgVars == <<formats, formatNames>>

\* Two Watch calls that run in two goroutines.
VARIABLES
    ww            \* [1..2 -> the goroutine's pc and locals]

\* The indirect server handle of serve.go.
VARIABLES
    theServer,    \* the *ConfiguredServer that indirectServer.cs points to
    srvLog,       \* the calls that reached the ConfiguredServer, in order
    isLast,       \* the last call through the handle and its result
    nOps          \* number of calls through the handle so far

srvVars == <<theServer, srvLog, isLast, nOps>>

\* One accepted connection of the server that NewServer returns.
VARIABLES
    conn          \* the connection: what the client sends, what was read
                  \* from the socket, the bufio.Reader, the handler chosen

connVars == <<conn>>

vars == <<mdsVars, cmpVars, bufVars, raceVars, cfgVars, ww, srvVars, connVars>>

\* ------------------------------------------------------- format (pure)
\* strings.ToLower on the format names of the model.
ToLower(name) == IF name = "JSON" THEN "json" ELSE IF name = "XML" THEN "xml" ELSE name

\* GenericDataFormat.MarshalInit / MarshalItem / FrameItem: a format is a
\* pure function; the result keeps what was marshaled, by which call and for
\* which format.  Whether a call fails is an input of the action.
MarshalGet(f, data) == <<"get", f, data>>

MarshalInit(f, data) == <<"init", f, data>>

MarshalItem(f, data) == <<"item", f, data>>

FrameItem(f, buf) == <<"frame", f, buf>>

\* ---------------------------------------------------------- compaction
\* The second loop of writeToAll / marshaledWatcher.emit: walk list once,
\* skip the index at the head of failed (ascending), copy the tail in bulk
\* once failed is used up.
\* ranged is the slice the range statement evaluated; live is the field as
\* it is when the loop reaches the last failed index and copies the tail.
RECURSIVE CompactLoop(_, _, _, _, _)
CompactLoop(ranged, live, i, failed, okay) ==
    IF i > Len(ranged) THEN okay
    ELSE LET okay1 == IF i # Head(failed) THEN Append(okay, ranged[i]) ELSE okay
         IN  IF i >= Head(failed)
             THEN IF Len(Tail(failed)) = 0
                  THEN IF i + 1 <= Len(live)
                       THEN okay1 \o SubSeq(live, i + 1, Len(live))
                       ELSE okay1
                  ELSE CompactLoop(ranged, live, i + 1, Tail(failed), okay1)
             ELSE CompactLoop(ranged, live, i + 1, failed, okay1)

\* list without the positions in F, the order of the others kept.
RemoveIdx(list, F) ==
    LET kept == SelectSeq([i \in 1..Len(list) |-> i], LAMBDA i : i \notin F)
    IN  [j \in 1..Len(kept) |-> list[kept[j]]]

\* A compaction that forgets the bulk copy of the survivors after the last
\* failed index.
CompactNoTail(list, failed) ==
    RemoveIdx(SubSeq(list, 1, failed[Len(failed)]), {failed[k] : k \in 1..Len(failed)})

\* The compaction when nothing else touches the list meanwhile.
Compact(list, failed) == CompactLoop(list, list, 1, failed, <<>>)

\* ------------------------------------------------- defaultFrameWatcher
\* The first loop of writeToAll: one Write of buf per writer, in list order;
\* F is the set of positions whose Write returns an error.
\* A write loop that stops at the first Write that fails.
RECURSIVE WriteLoopStop(_, _, _, _, _, _)
WriteLoopStop(ws, i, buf, F, o, failed) ==
    IF i > Len(ws) THEN [out |-> o, failed |-> failed]
    ELSE IF i \in F
         THEN [out |-> [o EXCEPT ![ws[i]] = Append(@, [buf |-> buf, ok |-> FALSE])],
               failed |-> Append(failed, i)]
         ELSE WriteLoopStop(ws, i + 1, buf, F,
                            [o EXCEPT ![ws[i]] = Append(@, [buf |-> buf, ok |-> TRUE])],
                            failed)

RECURSIVE WriteLoop(_, _, _, _, _, _)
WriteLoop(ws, i, buf, F, o, failed) ==
    IF i > Len(ws) THEN [out |-> o, failed |-> failed]
    ELSE WriteLoop(ws, i + 1, buf, F,
                   [o EXCEPT ![ws[i]] = Append(@, [buf |-> buf, ok |-> i \notin F])],
                   IF i \in F THEN Append(failed, i) ELSE failed)

writeToAll(ws, buf, F, o) ==
    LET r == WriteLoop(ws, 1, buf, F, o, <<>>)
    IN  IF Len(r.failed) = 0
        THEN [writers |-> ws, out |-> r.out, err |-> Nil]
        ELSE LET okay == Compact(ws, r.failed)
             IN  [writers |-> okay, out |-> r.out,
                  err |-> IF Len(okay) = 0 THEN "done" ELSE Nil]

\* HandleItem on the fanout of format f; fErr: FrameItem fails.
HandleItem(f, ws, item, fErr, F, o) ==
    IF Len(ws) = 0 THEN [writers |-> ws, out |-> o, err |-> "done"]
    ELSE IF fErr THEN [writers |-> ws, out |-> o, err |-> "frame"]
    ELSE writeToAll(ws, FrameItem(f, item), F \cap (1..Len(ws)), o)

\* What one item of a HandleItems call can meet: a framing error, or a set
\* of positions of the current writer list whose Write fails.
ItemOutcomes(ws) ==
    {[fErr |-> TRUE, F |-> {}]} \cup {[fErr |-> FALSE, F |-> S] : S \in SUBSET (1..Len(ws))}

\* The loop of HandleItems from item i on: the set of results it can have,
\* one per choice of outcomes.  It returns at the first error.
\* A HandleItems loop that walks the items from the last to the first.
RECURSIVE HandleItemsLoopRev(_, _, _, _, _)
HandleItemsLoopRev(f, ws, items, i, o) ==
    IF i > Len(items) THEN {[writers |-> ws, out |-> o, err |-> Nil]}
    ELSE UNION {IF oc.fErr THEN {[writers |-> ws, out |-> o, err |-> "frame"]}
                ELSE LET r == writeToAll(ws, FrameItem(f, items[Len(items) + 1 - i]), oc.F, o)
                     IN  IF r.err # Nil THEN {r}
                         ELSE HandleItemsLoopRev(f, r.writers, items, i + 1, r.out)
                : oc \in ItemOutcomes(ws)}

RECURSIVE HandleItemsLoop(_, _, _, _, _)
HandleItemsLoop(f, ws, items, i, o) ==
    IF i > Len(items) THEN {[writers |-> ws, out |-> o, err |-> Nil]}
    ELSE UNION {IF oc.fErr THEN {[writers |-> ws, out |-> o, err |-> "frame"]}
                ELSE LET r == writeToAll(ws, FrameItem(f, items[i]), oc.F, o)
                     IN  IF r.err # Nil THEN {r}
                         ELSE HandleItemsLoop(f, r.writers, items, i + 1, r.out)
                : oc \in ItemOutcomes(ws)}

HandleItems(f, ws, items, o) ==
    IF Len(ws) = 0 THEN {[writers |-> ws, out |-> o, err |-> "done"]}
    ELSE HandleItemsLoop(f, ws, items, 1, o)

\* An init that registers the writer without looking at the result of the
\* snapshot's Write.
dfw_initKeep(f, ws, data, w, e, o) ==
    IF data # Nil /\ e \in {"marshal", "frame"}
    THEN [writers |-> ws, out |-> o, err |-> e]
    ELSE [writers |-> Append(ws, w),
          out |-> IF data = Nil THEN o
                  ELSE [o EXCEPT ![w] = Append(@, [buf |-> FrameItem(f, MarshalInit(f, data)),
                                                   ok |-> e # "write"])],
          err |-> Nil]

\* defaultFrameWatcher.init(data, w); e names the step that fails, if any.
dfw_init(f, ws, data, w, e, o) ==
    IF data # Nil
    THEN IF e = "marshal" THEN [writers |-> ws, out |-> o, err |-> "marshal"]
         ELSE IF e = "frame" THEN [writers |-> ws, out |-> o, err |-> "frame"]
         ELSE LET buf == FrameItem(f, MarshalInit(f, data))
                  o1 == [o EXCEPT ![w] = Append(@, [buf |-> buf, ok |-> e # "write"])]
              IN  IF e = "write" THEN [writers |-> ws, out |-> o1, err |-> "write"]
                  ELSE [writers |-> Append(ws, w), out |-> o1, err |-> Nil]
    ELSE [writers |-> Append(ws, w), out |-> o, err |-> Nil]

\* ---------------------------------------------------- marshaledWatcher
\* An init that goes on to the registration when dfw.init failed.
gw_initEager(f, ws, iws, data, w, e, o) ==
    LET r == dfw_init(f, ws, data, w, e, o)
    IN  [writers |-> r.writers,
         watchers |-> IF Len(r.writers) = 1 THEN Append(iws, f) ELSE iws,
         out |-> r.out, err |-> r.err]

\* marshaledWatcher.init(w): data is what source.GetInit() returns.
gw_init(f, ws, iws, data, w, e, o) ==
    LET r == dfw_init(f, ws, data, w, e, o)
    IN  IF r.err # Nil
        THEN [writers |-> r.writers, watchers |-> iws, out |-> r.out, err |-> r.err]
        ELSE [writers |-> r.writers,
              watchers |-> IF Len(r.writers) = 1 THEN Append(iws, f) ELSE iws,
              out |-> r.out, err |-> Nil]

\* The first loop of marshaledWatcher.emit: HandleItem on every item watcher.
RECURSIVE EmitLoop(_, _, _, _, _, _, _, _, _)
EmitLoop(f, iws, i, item, fErr, F, ws, o, failed) ==
    IF i > Len(iws) THEN [writers |-> ws, out |-> o, failed |-> failed]
    ELSE LET r == HandleItem(f, ws, item, fErr, F, o)
         IN  EmitLoop(f, iws, i + 1, item, fErr, F, r.writers, r.out,
                      IF r.err # Nil THEN Append(failed, i) ELSE failed)

\* What marshaledWatcher.emit leaves in gw.watchers and returns, given the
\* positions of the item watchers whose HandleItem failed.
gw_compact(iws, failed) ==
    IF Len(failed) = 0 THEN [watchers |-> iws, ret |-> TRUE]
    ELSE LET okay == Compact(iws, failed)
         IN  [watchers |-> okay, ret |-> Len(okay) # 0]

\* An emit that reports sinks remaining whatever is left.
gw_emitAlwaysTrue(f, ws, iws, data, mErr, fErr, F, o) ==
    LET r == EmitLoop(f, iws, 1, MarshalItem(f, data), fErr, F, ws, o, <<>>)
    IN  [writers |-> r.writers, watchers |-> gw_compact(iws, r.failed).watchers,
         out |-> r.out, ret |-> TRUE]

gw_emit(f, ws, iws, data, mErr, fErr, F, o) ==
    IF Len(iws) = 0 THEN [writers |-> ws, watchers |-> iws, out |-> o, ret |-> FALSE]
    ELSE IF mErr THEN [writers |-> ws, watchers |-> iws, out |-> o, ret |-> FALSE]
    ELSE LET r == EmitLoop(f, iws, 1, MarshalItem(f, data), fErr, F, ws, o, <<>>)
             c == gw_compact(iws, r.failed)
         IN  [writers |-> r.writers, watchers |-> c.watchers, out |-> r.out, ret |-> c.ret]

\* ------------------------------------------------------------ chanBuf
\* A Write call that has not been made.
NoWrite ==
    [pc |-> "idle", pay |-> <<>>, n |-> 0, err |-> Nil, send |-> FALSE,
     afterClose |-> FALSE, idleAtCall |-> FALSE, atClose |-> FALSE, found |-> FALSE,
     first |-> FALSE, grew |-> 0, sentAtCS |-> 0, sentAtRet |-> 0]

BufIdle ==
    /\ cbBuf = <<>>
    /\ cbClosed = FALSE
    /\ cbPending = FALSE
    /\ cbP = <<>>
    /\ cbPCap = 0
    /\ ready = 0
    /\ wr = [p \in Producers |-> NoWrite]
    /\ cpc = "idle"
    /\ conPc = "wait"
    /\ lastCS = "none"
    /\ accepted = <<>>
    /\ drained = <<>>
    /\ nCalls = 0
    /\ nSent = 0
    /\ nDrains = 0
    /\ okSince = 0
    /\ decSince = 0
    /\ sentSince = 0
    /\ drainSaw = 0

\* A Write that notifies whenever it appended something.
WriteLockedAlways(closed, pending, buf, p) ==
    IF closed THEN [buf |-> buf, pending |-> pending, n |-> 0, err |-> "closed", send |-> FALSE]
    ELSE [buf |-> buf \o p, pending |-> pending \/ Len(p) > 0, n |-> Len(p), err |-> Nil,
          send |-> Len(p) > 0]

\* A Write that does not look at closed.
WriteLockedOpen(closed, pending, buf, p) ==
    [buf |-> buf \o p, pending |-> pending \/ Len(p) > 0, n |-> Len(p), err |-> Nil,
     send |-> Len(p) > 0 /\ ~pending]

\* chanBuf.Write between Lock and Unlock: bytes.Buffer.Write appends all of
\* p and returns len(p), nil.
WriteLocked(closed, pending, buf, p) ==
    IF closed THEN [buf |-> buf, pending |-> pending, n |-> 0, err |-> "closed", send |-> FALSE]
    ELSE [buf |-> buf \o p, pending |-> pending \/ Len(p) > 0, n |-> Len(p), err |-> Nil,
          send |-> Len(p) > 0 /\ ~pending]

\* A Reset that leaves pending as it is.
ResetKeepPending(pending, buf) == [pending |-> pending, buf |-> <<>>]

\* chanBuf.Reset.
Reset(pending, buf) == [pending |-> FALSE, buf |-> <<>>]

\* A producer calls Write(p) with the bytes of its call number, len long.
w_call(p, len) ==
    /\ wr[p].pc \in {"idle", "ret"}
    /\ nCalls < MaxWrites
    /\ nCalls' = nCalls + 1
    /\ wr' = [wr EXCEPT ![p] = [NoWrite EXCEPT !.pc = "lock",
                                                !.pay = [i \in 1..len |-> nCalls + 1],
                                                !.afterClose = (cpc = "returned"),
                                                !.idleAtCall = (~cbPending /\ ~cbClosed)]]
    /\ UNCHANGED <<cbBuf, cbClosed, cbPending, cbP, cbPCap, ready, cpc, conPc, lastCS,
                   accepted, drained, nSent, nDrains, okSince, decSince, sentSince, drainSaw>>
    /\ UNCHANGED <<mdsVars, cmpVars, raceVars, cfgVars, ww, srvVars, connVars>>

\* The producer holds the mutex: Lock ... Unlock of Write.  Without a send
\* Write returns right after Unlock.
w_locked(p) ==
    /\ wr[p].pc = "lock"
    /\ LET r == WriteLocked(cbClosed, cbPending, cbBuf, wr[p].pay)
       IN  /\ cbBuf' = r.buf
           /\ cbPending' = r.pending
           /\ wr' = [wr EXCEPT ![p] = [@ EXCEPT !.pc = IF r.send THEN "send" ELSE "ret",
                                                !.n = r.n, !.err = r.err, !.send = r.send,
                                                !.found = cbPending,
                                                !.first = (lastCS = "drain"),
                                                !.grew = Len(r.buf) - Len(cbBuf),
                                                !.sentAtCS = nSent,
                                                !.sentAtRet = nSent]]
           /\ accepted' = IF r.err = Nil THEN accepted \o wr[p].pay ELSE accepted
           /\ okSince' = IF r.err = Nil /\ r.n > 0 THEN okSince + 1 ELSE okSince
           /\ decSince' = IF r.send THEN decSince + 1 ELSE decSince
    /\ lastCS' = "write"
    /\ UNCHANGED <<cbClosed, cbP, cbPCap, ready, cpc, conPc, drained, nCalls, nSent, nDrains,
                   sentSince, drainSaw>>
    /\ UNCHANGED <<mdsVars, cmpVars, raceVars, cfgVars, ww, srvVars, connVars>>

\* cb.ready <- cb, then Write returns.
w_send(p) ==
    /\ wr[p].pc = "send"
    /\ ready < ChanCap
    /\ ready' = ready + 1
    /\ nSent' = nSent + 1
    /\ sentSince' = sentSince + 1
    /\ wr' = [wr EXCEPT ![p] = [@ EXCEPT !.pc = "ret", !.sentAtRet = nSent + 1]]
    /\ UNCHANGED <<cbBuf, cbClosed, cbPending, cbP, cbPCap, cpc, conPc, lastCS, accepted,
                   drained, nCalls, nDrains, okSince, decSince, drainSaw>>
    /\ UNCHANGED <<mdsVars, cmpVars, raceVars, cfgVars, ww, srvVars, connVars>>

\* close() is called; the Writes that have started and not returned are in
\* flight.
c_call ==
    /\ cpc = "idle"
    /\ cpc' = "lock"
    /\ wr' = [p \in Producers |->
                 IF wr[p].pc \in {"lock", "send"} THEN [wr[p] EXCEPT !.atClose = TRUE]
                 ELSE wr[p]]
    /\ UNCHANGED <<cbBuf, cbClosed, cbPending, cbP, cbPCap, ready, conPc, lastCS, accepted,
                   drained, nCalls, nSent, nDrains, okSince, decSince, sentSince, drainSaw>>
    /\ UNCHANGED <<mdsVars, cmpVars, raceVars, cfgVars, ww, srvVars, connVars>>

\* Lock; closed = true; Unlock, and close() returns.
c_locked ==
    /\ cpc = "lock"
    /\ cbClosed' = TRUE
    /\ cpc' = "returned"
    /\ lastCS' = "close"
    /\ UNCHANGED <<cbBuf, cbPending, cbP, cbPCap, ready, wr, conPc, accepted, drained,
                   nCalls, nSent, nDrains, okSince, decSince, sentSince, drainSaw>>
    /\ UNCHANGED <<mdsVars, cmpVars, raceVars, cfgVars, ww, srvVars, connVars>>

\* The consumer receives a reference to the chanBuf from the ready channel.
con_recv ==
    /\ conPc = "wait"
    /\ ready > 0
    /\ ready' = ready - 1
    /\ conPc' = "drain"
    /\ UNCHANGED <<cbBuf, cbClosed, cbPending, cbP, cbPCap, wr, cpc, lastCS, accepted,
                   drained, nCalls, nSent, nDrains, okSince, decSince, sentSince, drainSaw>>
    /\ UNCHANGED <<mdsVars, cmpVars, raceVars, cfgVars, ww, srvVars, connVars>>

\* A drain that copies into p as it is, without making room.
drainNoGrow(pCap, buf) ==
    LET n == IF pCap < Len(buf) THEN pCap ELSE Len(buf)
    IN  [p |-> SubSeq(buf, 1, n), cap |-> pCap]

\* chanBuf.drain up to Reset: p is made anew, cb.Len() long, when its
\* capacity is too small; copy fills p[:cap(p)] with as much of the buffer
\* as fits, and p is cut to what was copied.
drain(pCap, buf) ==
    LET cap1 == IF pCap < Len(buf) THEN Len(buf) ELSE pCap
        n == IF cap1 < Len(buf) THEN cap1 ELSE Len(buf)
    IN  [p |-> SubSeq(buf, 1, n), cap |-> cap1]

\* chanBuf.drain, called by the consumer: copy the buffer into p, Reset, and
\* return p.
con_drain ==
    /\ conPc = "drain"
    /\ LET r == Reset(cbPending, cbBuf)
           d == drain(cbPCap, cbBuf)
       IN  /\ cbPCap' = d.cap
           /\ cbP' = d.p
           /\ cbBuf' = r.buf
           /\ cbPending' = r.pending
           /\ drained' = drained \o d.p
    /\ conPc' = "wait"
    /\ lastCS' = "drain"
    /\ nDrains' = nDrains + 1
    /\ drainSaw' = sentSince
    /\ okSince' = 0
    /\ decSince' = 0
    /\ sentSince' = 0
    /\ UNCHANGED <<cbClosed, ready, wr, cpc, accepted, nCalls, nSent>>
    /\ UNCHANGED <<mdsVars, cmpVars, raceVars, cfgVars, ww, srvVars, connVars>>

NextBuf ==
    \/ \E p \in Producers, len \in 0..MaxLen : w_call(p, len)
    \/ \E p \in Producers : w_locked(p)
    \/ \E p \in Producers : w_send(p)
    \/ c_call
    \/ c_locked
    \/ con_recv
    \/ con_drain

\* -------------------------------------------------- MarshaledDataSource
NoCall ==
    [op |-> "none", name |-> "", fmt |-> "", w |-> 0, err |-> Nil, ret |-> FALSE, data |-> Nil,
     pre |-> [f \in Formats |-> <<>>], preWatchers |-> [f \in Formats |-> <<>>],
     preWatching |-> FALSE, F |-> [f \in Formats |-> {}],
     mErr |-> [f \in Formats |-> FALSE], fErr |-> [f \in Formats |-> FALSE],
     items |-> <<>>, srcWatch |-> FALSE, srcGet |-> FALSE, preCalls |-> 0]

\* Neither goroutine of the concurrent Watch and emit is running.
RaceIdle ==
    /\ wt = [pc |-> "idle", fmt |-> "", w |-> 0, err |-> Nil, tmp |-> <<>>]
    /\ et = [pc |-> "idle", order |-> <<>>, k |-> 0, any |-> FALSE, iws |-> <<>>, j |-> 0,
             wfailed |-> <<>>, ws |-> <<>>, failed |-> <<>>, okay |-> <<>>, ret |-> FALSE,
             rereg |-> FALSE, encErr |-> FALSE, failedW |-> {}]

\* No call has been made through the indirect server handle, and no
\* ConfiguredServer is set.
NoOp ==
    [op |-> "none", arg |-> "", srv |-> Nil, r |-> Nil, ret |-> Nil, reached |-> FALSE,
     preLog |-> <<>>]

SrvIdle ==
    /\ theServer = Nil
    /\ srvLog = <<>>
    /\ isLast = NoOp
    /\ nOps = 0

\* No connection has been accepted.
NoConn ==
    [state |-> "none", stream |-> <<>>, sock |-> 0, buf |-> <<>>, filled |-> 0,
     peeked |-> <<>>, handler |-> "", reader |-> "", dispatched |-> 0, got |-> <<>>]

ConnIdle == conn = NoConn

\* Neither goroutine of the two concurrent Watch calls is running.
WatchIdle ==
    ww = [t \in 1..2 |-> [pc |-> "idle", name |-> "", fmt |-> "", w |-> 0, err |-> Nil,
                          tmp |-> <<>>]]

\* The parts of the state that a specification of another part leaves alone.
RestIdle == WatchIdle /\ SrvIdle /\ ConnIdle

\* NewMarshaledDataSource(source, formats): user is the set of keys of
\* formats (every value a format), tt whether source.TextTemplate() is not
\* nil, order the order in which the range over formats yields its keys.
NewMarshaledDataSource(user, tt, order) ==
    LET json == IF "json" \notin user THEN <<"json">> ELSE <<>>
        text == IF tt /\ "text" \notin user THEN <<"text">> ELSE <<>>
        defaults == json \o text
    IN  [formats |-> user,
         formatNames |-> defaults \o order,
         watchers |-> {defaults[k] : k \in 1..Len(defaults)} \cup user]

\* The multiplexer of a source with a text template and no formats given.
CfgDefault ==
    /\ formats = NewMarshaledDataSource({}, TRUE, <<>>).formats
    /\ formatNames = NewMarshaledDataSource({}, TRUE, <<>>).formatNames

\* No compaction under way.
CmpIdle ==
    /\ cList = <<>>
    /\ cF = {}
    /\ cDone = FALSE
    /\ cWriters = <<>>
    /\ cWatchers = <<>>

MdsInit ==
    /\ writers = [f \in Formats |-> <<>>]
    /\ watchers = [f \in Formats |-> <<>>]
    /\ watching = FALSE
    /\ srcHolds = FALSE
    /\ srcWatchCalls = 0
    /\ out = [w \in Writers |-> <<>>]
    /\ nextW = 1
    /\ nEmit = 0
    /\ last = NoCall

\* A Watch that subscribes to the source on every successful attach.
WatchSourceAlways(isWatching, holds, calls) ==
    [watching |-> TRUE, srcHolds |-> TRUE, calls |-> calls + 1, called |-> TRUE]

\* The end of a successful Watch: if !mds.watching, call
\* mds.source.Watch(mds.emit) and set mds.watching.
WatchSource(isWatching, holds, calls) ==
    IF ~isWatching
    THEN [watching |-> TRUE, srcHolds |-> TRUE, calls |-> calls + 1, called |-> TRUE]
    ELSE [watching |-> isWatching, srcHolds |-> holds, calls |-> calls, called |-> FALSE]

\* MarshaledDataSource.Watch(formatName, w) with a fresh writer w; data is
\* what source.GetInit() returns, e the step of the snapshot that fails.
mds_Watch(formatName, data, e) ==
    /\ nextW <= MaxWatch
    /\ LET f == ToLower(formatName)
           w == nextW
           call == [NoCall EXCEPT !.op = "Watch", !.name = formatName, !.fmt = f, !.w = w,
                                  !.data = data,
                                  !.pre = writers, !.preWatchers = watchers,
                                  !.preWatching = watching, !.preCalls = srcWatchCalls]
       IN  /\ nextW' = nextW + 1
           /\ IF f \notin DOMAIN watchers
              THEN /\ e = Nil /\ data = Nil
                   /\ last' = [call EXCEPT !.err = "unsupported"]
                   /\ UNCHANGED <<writers, watchers, watching, srcHolds, srcWatchCalls, out>>
              ELSE LET r == gw_init(f, writers[f], watchers[f], data, w, e, out)
                   IN  /\ (data = Nil => e = Nil)
                       /\ writers' = [writers EXCEPT ![f] = r.writers]
                       /\ watchers' = [watchers EXCEPT ![f] = r.watchers]
                       /\ out' = r.out
                       /\ IF r.err = Nil
                          THEN LET s == WatchSource(watching, srcHolds, srcWatchCalls)
                               IN  /\ srcHolds' = s.srcHolds
                                   /\ srcWatchCalls' = s.calls
                                   /\ watching' = s.watching
                                   /\ last' = [call EXCEPT !.err = r.err,
                                                           !.srcWatch = s.called]
                          ELSE /\ last' = [call EXCEPT !.err = r.err]
                               /\ UNCHANGED <<watching, srcHolds, srcWatchCalls>>
    /\ UNCHANGED <<nEmit, cmpVars, bufVars, raceVars, cfgVars, ww, srvVars, connVars>>

\* An emit loop that leaves at the first format whose emit returns false.
RECURSIVE EmitFormatsStop(_, _, _, _, _)
EmitFormatsStop(order, i, data, in, st) ==
    IF i > Len(order) THEN st
    ELSE LET f == order[i]
             r == gw_emit(f, st.writers[f], st.watchers[f], data,
                          in.mErr[f], in.fErr[f], in.F[f], st.out)
             st1 == [writers |-> [st.writers EXCEPT ![f] = r.writers],
                     watchers |-> [st.watchers EXCEPT ![f] = r.watchers],
                     out |-> r.out,
                     any |-> st.any \/ r.ret]
         IN  IF r.ret THEN EmitFormatsStop(order, i + 1, data, in, st1) ELSE st1

\* A Get that frames what it marshaled, as Watch does with its snapshot.
GetFramed(known, f, data, mErr, wErr, w, o) ==
    IF ~known THEN [out |-> o, err |-> "unsupported", srcGet |-> FALSE]
    ELSE IF data = Nil THEN [out |-> o, err |-> "notgetable", srcGet |-> TRUE]
    ELSE IF mErr THEN [out |-> o, err |-> "marshal", srcGet |-> TRUE]
    ELSE [out |-> [o EXCEPT ![w] = Append(@, [buf |-> FrameItem(f, MarshalGet(f, data)),
                                              ok |-> ~wErr])],
          err |-> IF wErr THEN "write" ELSE Nil, srcGet |-> TRUE]

\* MarshaledDataSource.Get: known tells whether the lowered name is a key of
\* mds.formats, data is what source.Get() returns, mErr and wErr whether
\* MarshalGet and the Write fail.
Get(known, f, data, mErr, wErr, w, o) ==
    IF ~known THEN [out |-> o, err |-> "unsupported", srcGet |-> FALSE]
    ELSE IF data = Nil THEN [out |-> o, err |-> "notgetable", srcGet |-> TRUE]
    ELSE IF mErr THEN [out |-> o, err |-> "marshal", srcGet |-> TRUE]
    ELSE [out |-> [o EXCEPT ![w] = Append(@, [buf |-> MarshalGet(f, data), ok |-> ~wErr])],
          err |-> IF wErr THEN "write" ELSE Nil, srcGet |-> TRUE]

\* MarshaledDataSource.Get(formatName, w) with a fresh writer w.
mds_Get(formatName, data, mErr, wErr) ==
    /\ nextW <= MaxWatch
    /\ LET f == ToLower(formatName)
           w == nextW
           r == Get(f \in formats, f, data, mErr, wErr, w, out)
           call == [NoCall EXCEPT !.op = "Get", !.name = formatName, !.fmt = f, !.w = w,
                                  !.data = data, !.pre = writers, !.preWatchers = watchers,
                                  !.preWatching = watching, !.preCalls = srcWatchCalls]
       IN  /\ f \notin formats => (data = Nil /\ ~mErr /\ ~wErr)
           /\ data = Nil => (~mErr /\ ~wErr)
           /\ mErr => ~wErr
           /\ nextW' = nextW + 1
           /\ out' = r.out
           /\ last' = [call EXCEPT !.err = r.err, !.srcGet = r.srcGet]
    /\ UNCHANGED <<writers, watchers, watching, srcHolds, srcWatchCalls, nEmit>>
    /\ UNCHANGED <<cmpVars, bufVars, raceVars, cfgVars, ww, srvVars, connVars>>

\* The loop of MarshaledDataSource.emit over mds.watchers, in the order the
\* map iteration yields the formats.
RECURSIVE EmitFormats(_, _, _, _, _)
EmitFormats(order, i, data, in, st) ==
    IF i > Len(order) THEN st
    ELSE LET f == order[i]
             r == gw_emit(f, st.writers[f], st.watchers[f], data,
                          in.mErr[f], in.fErr[f], in.F[f], st.out)
         IN  EmitFormats(order, i + 1, data, in,
                         [writers |-> [st.writers EXCEPT ![f] = r.writers],
                          watchers |-> [st.watchers EXCEPT ![f] = r.watchers],
                          out |-> r.out,
                          any |-> st.any \/ r.ret])

\* The orders in which a Go map iteration can yield the formats.
FormatOrders == {<<"json", "text">>, <<"text", "json">>}

\* The outcomes one format can have in a call: a marshal error only where
\* MarshalItem is called, a framing error only where FrameItem is called,
\* write errors only at positions of the writer list that are written.
EmitOutcomes(f) ==
    IF ~watching \/ Len(watchers[f]) = 0
    THEN {[mErr |-> FALSE, fErr |-> FALSE, F |-> {}]}
    ELSE {[mErr |-> TRUE, fErr |-> FALSE, F |-> {}]}
         \cup (IF Len(writers[f]) = 0 THEN {}
               ELSE {[mErr |-> FALSE, fErr |-> TRUE, F |-> {}]})
         \cup {[mErr |-> FALSE, fErr |-> FALSE, F |-> S] : S \in SUBSET (1..Len(writers[f]))}

EmitInputs ==
    {[mErr |-> [f \in Formats |-> IF f = "json" THEN a.mErr ELSE b.mErr],
      fErr |-> [f \in Formats |-> IF f = "json" THEN a.fErr ELSE b.fErr],
      F |-> [f \in Formats |-> IF f = "json" THEN a.F ELSE b.F]] :
        a \in EmitOutcomes("json"), b \in EmitOutcomes("text")}

\* MarshaledDataSource.emit(data), called by the source with its next item.
mds_emit(in) ==
    /\ nEmit < MaxEmits
    /\ LET data == nEmit + 1
           call == [NoCall EXCEPT !.op = "emit", !.data = data, !.pre = writers,
                                  !.preWatchers = watchers, !.preWatching = watching,
                                  !.preCalls = srcWatchCalls,
                                  !.F = in.F, !.mErr = in.mErr, !.fErr = in.fErr]
       IN  /\ nEmit' = nEmit + 1
           /\ IF ~watching
              THEN /\ last' = [call EXCEPT !.ret = FALSE]
                   /\ srcHolds' = FALSE
                   /\ UNCHANGED <<writers, watchers, watching, out>>
              ELSE \E order \in FormatOrders :
                   LET r == EmitFormats(order, 1, data, in,
                                        [writers |-> writers, watchers |-> watchers,
                                         out |-> out, any |-> FALSE])
                   IN  /\ writers' = r.writers
                       /\ watchers' = r.watchers
                       /\ out' = r.out
                       /\ watching' = r.any
                       /\ srcHolds' = r.any
                       /\ last' = [call EXCEPT !.ret = r.any]
    /\ UNCHANGED <<srcWatchCalls, nextW, cmpVars, bufVars, raceVars, cfgVars, ww, srvVars, connVars>>

\* -------------------------------- a defaultFrameWatcher driven directly
\* The fanout of format "json", used through its own methods.
FanFmt == "json"

\* dfw.init(data, w) with a fresh writer.
fan_init(data, e) ==
    /\ nextW <= NumWriters
    /\ data = Nil => e = Nil
    /\ LET r == dfw_init(FanFmt, writers[FanFmt], data, nextW, e, out)
       IN  /\ writers' = [writers EXCEPT ![FanFmt] = r.writers]
           /\ out' = r.out
           /\ last' = [NoCall EXCEPT !.op = "init", !.fmt = FanFmt, !.w = nextW,
                                     !.data = data, !.pre = writers, !.err = r.err]
    /\ nextW' = nextW + 1
    /\ UNCHANGED <<watchers, watching, srcHolds, srcWatchCalls, nEmit, cmpVars, bufVars, raceVars, cfgVars, ww, srvVars, connVars>>

\* dfw.HandleItem(item) with the next marshaled item.
fan_HandleItem(fErr, F) ==
    /\ nEmit < MaxItems
    /\ fErr => Len(writers[FanFmt]) > 0 /\ F = {}
    /\ LET item == MarshalItem(FanFmt, nEmit + 1)
           r == HandleItem(FanFmt, writers[FanFmt], item, fErr, F, out)
       IN  /\ writers' = [writers EXCEPT ![FanFmt] = r.writers]
           /\ out' = r.out
           /\ last' = [NoCall EXCEPT !.op = "HandleItem", !.fmt = FanFmt,
                                     !.data = nEmit + 1, !.pre = writers, !.err = r.err,
                                     !.F = [NoCall.F EXCEPT ![FanFmt] = F],
                                     !.fErr = [NoCall.fErr EXCEPT ![FanFmt] = fErr]]
    /\ nEmit' = nEmit + 1
    /\ UNCHANGED <<watchers, watching, srcHolds, srcWatchCalls, nextW, cmpVars, bufVars, raceVars, cfgVars, ww, srvVars, connVars>>

\* dfw.HandleItems(items) with the next n marshaled items.
fan_HandleItems(n) ==
    /\ nEmit + n <= MaxItems
    /\ LET ids == [k \in 1..n |-> nEmit + k]
           items == [k \in 1..n |-> MarshalItem(FanFmt, ids[k])]
       IN  \E r \in HandleItems(FanFmt, writers[FanFmt], items, out) :
               /\ writers' = [writers EXCEPT ![FanFmt] = r.writers]
               /\ out' = r.out
               /\ last' = [NoCall EXCEPT !.op = "HandleItems", !.fmt = FanFmt,
                                         !.items = ids, !.pre = writers, !.err = r.err]
    /\ nEmit' = nEmit + n
    /\ UNCHANGED <<watchers, watching, srcHolds, srcWatchCalls, nextW, cmpVars, bufVars, raceVars, cfgVars, ww, srvVars, connVars>>

NextFan ==
    \/ \E d \in {Nil, Snap}, e \in {Nil, "marshal", "frame", "write"} : fan_init(d, e)
    \/ \E fErr \in BOOLEAN, F \in SUBSET (1..Len(writers[FanFmt])) : fan_HandleItem(fErr, F)
    \/ \E n \in 1..MaxItems : fan_HandleItems(n)

FanInit == MdsInit /\ CmpIdle /\ BufIdle /\ RaceIdle /\ CfgDefault /\ RestIdle

SpecFan == FanInit /\ [][NextFan]_vars

\* ------------------------------------------- the compaction on its own
\* Every list of at most NumWriters writers.
Lists == UNION {[1..n -> Writers] : n \in 0..NumWriters}

CmpInit ==
    /\ MdsInit
    /\ BufIdle
    /\ RaceIdle
    /\ CfgDefault
    /\ RestIdle
    /\ cList \in Lists
    /\ cF \in SUBSET (1..Len(cList))
    /\ cDone = FALSE
    /\ cWriters = <<>>
    /\ cWatchers = <<>>

\* One writeToAll on cList in which the Writes at the positions cF fail, and
\* the compaction of marshaledWatcher.emit for the same failed positions.
cmp_Run ==
    /\ ~cDone
    /\ LET r == WriteLoop(cList, 1, FrameItem(FanFmt, MarshalItem(FanFmt, 1)), cF,
                          [w \in Writers |-> <<>>], <<>>)
       IN  /\ cWriters' = writeToAll(cList, FrameItem(FanFmt, MarshalItem(FanFmt, 1)), cF,
                                     [w \in Writers |-> <<>>]).writers
           /\ cWatchers' = gw_compact(cList, r.failed).watchers
    /\ cDone' = TRUE
    /\ UNCHANGED <<cList, cF, mdsVars, bufVars, raceVars, cfgVars, ww, srvVars, connVars>>

NextCompact == cmp_Run

SpecCompact == CmpInit /\ [][NextCompact]_vars

Next ==
    \/ \E n \in FormatNames, d \in {Nil, Snap}, e \in {Nil, "marshal", "frame", "write"} :
          mds_Watch(n, d, e)
    \/ \E in \in EmitInputs : mds_emit(in)

Init == MdsInit /\ CmpIdle /\ BufIdle /\ RaceIdle /\ CfgDefault /\ RestIdle

Spec == Init /\ [][Next]_vars

\* ------------------------------------ Get and Watch on any configuration
\* The keys a caller may put in the formats map.
UserNames == {"json", "text", "xml", "XML"}

\* The format names passed to Get and Watch.
CallNames == FormatNames \cup {"XML"}

\* What source.Get() returns when it has data.
GetData == "data"

\* The orders in which a range over a map with the keys S can yield them.
Orders(S) ==
    {o \in [1..Cardinality(S) -> S] : \A i, j \in 1..Cardinality(S) : i # j => o[i] # o[j]}

\* The multiplexer as NewMarshaledDataSource returns it, for any formats map
\* and any source.
GetInit ==
    /\ CmpIdle /\ BufIdle /\ RaceIdle /\ RestIdle
    /\ \E user \in SUBSET UserNames, tt \in BOOLEAN :
          \E order \in Orders(user) :
             LET mds == NewMarshaledDataSource(user, tt, order)
             IN  /\ formats = mds.formats
                 /\ formatNames = mds.formatNames
                 /\ writers = [f \in mds.watchers |-> <<>>]
                 /\ watchers = [f \in mds.watchers |-> <<>>]
    /\ watching = FALSE
    /\ srcHolds = FALSE
    /\ srcWatchCalls = 0
    /\ out = [w \in Writers |-> <<>>]
    /\ nextW = 1
    /\ nEmit = 0
    /\ last = NoCall

NextGet ==
    \/ \E n \in CallNames, d \in {Nil, Snap}, e \in {Nil, "marshal", "frame", "write"} :
          mds_Watch(n, d, e)
    \/ \E n \in CallNames, d \in {Nil, GetData}, mErr \in BOOLEAN, wErr \in BOOLEAN :
          mds_Get(n, d, mErr, wErr)

SpecGet == GetInit /\ [][NextGet]_vars

BufInit == MdsInit /\ CmpIdle /\ BufIdle /\ RaceIdle /\ CfgDefault /\ RestIdle

SpecBuf == BufInit /\ [][NextBuf]_vars

\* ------------------------------------- Watch and emit in two goroutines
\* Every read and every write of a field of the multiplexer is a step of its
\* own; the code takes no lock.
\* The multiplexer after n Watch("json", w) calls that found no initial data,
\* with a Watch on format f about to run beside an emit.
RaceInit ==
    /\ CmpIdle /\ BufIdle /\ CfgDefault /\ RestIdle
    /\ \E n \in 0..(NumWriters - 1), f \in Formats :
          /\ writers = [g \in Formats |-> IF g = "json" THEN [i \in 1..n |-> i] ELSE <<>>]
          /\ watchers = [g \in Formats |-> IF g = "json" /\ n > 0 THEN <<"json">> ELSE <<>>]
          /\ watching = (n > 0)
          /\ srcHolds = (n > 0)
          /\ srcWatchCalls = (IF n > 0 THEN 1 ELSE 0)
          /\ nextW = n + 2
          /\ wt = [pc |-> "init", fmt |-> f, w |-> n + 1, err |-> Nil, tmp |-> <<>>]
    /\ out = [w \in Writers |-> <<>>]
    /\ nEmit = 0
    /\ last = NoCall
    /\ et = [pc |-> "start", order |-> <<>>, k |-> 0, any |-> FALSE, iws |-> <<>>, j |-> 0,
             wfailed |-> <<>>, ws |-> <<>>, failed |-> <<>>, okay |-> <<>>, ret |-> FALSE,
             rereg |-> FALSE, encErr |-> FALSE, failedW |-> {}]

RaceFrame ==
    UNCHANGED <<srcWatchCalls, nextW, nEmit, last, cmpVars, bufVars, cfgVars, ww, srvVars,
                connVars>>

\* --- the Watch goroutine
\* dfw.init up to the append: the snapshot, if any, is marshaled, framed and
\* written to w.
a_init(data, e) ==
    /\ wt.pc = "init"
    /\ data = Nil => e = Nil
    /\ LET r == dfw_init(wt.fmt, <<>>, data, wt.w, e, out)
       IN  /\ out' = r.out
           /\ wt' = [wt EXCEPT !.err = r.err, !.pc = IF r.err = Nil THEN "append" ELSE "done"]
    /\ UNCHANGED <<writers, watchers, watching, srcHolds, srcWatchCalls, et>>
    /\ RaceFrame

\* append(dfw.writers, w): the read of dfw.writers.
a_readWriters ==
    /\ wt.pc = "append"
    /\ wt' = [wt EXCEPT !.tmp = writers[wt.fmt], !.pc = "store"]
    /\ UNCHANGED <<writers, watchers, watching, srcHolds, out, et>>
    /\ RaceFrame

\* dfw.writers = append(...): the write.
a_storeWriters ==
    /\ wt.pc = "store"
    /\ writers' = [writers EXCEPT ![wt.fmt] = Append(wt.tmp, wt.w)]
    /\ wt' = [wt EXCEPT !.pc = "len"]
    /\ UNCHANGED <<watchers, watching, srcHolds, out, et>>
    /\ RaceFrame

\* if len(gw.dfw.writers) == 1
a_len ==
    /\ wt.pc = "len"
    /\ wt' = [wt EXCEPT !.pc = IF Len(writers[wt.fmt]) = 1 THEN "regRead" ELSE "watching"]
    /\ UNCHANGED <<writers, watchers, watching, srcHolds, out, et>>
    /\ RaceFrame

\* append(gw.watchers, &gw.dfw): the read of gw.watchers.
a_readWatchers ==
    /\ wt.pc = "regRead"
    /\ wt' = [wt EXCEPT !.tmp = watchers[wt.fmt], !.pc = "regStore"]
    /\ UNCHANGED <<writers, watchers, watching, srcHolds, out, et>>
    /\ RaceFrame

\* gw.watchers = append(...): the write.
a_storeWatchers ==
    /\ wt.pc = "regStore"
    /\ watchers' = [watchers EXCEPT ![wt.fmt] = Append(wt.tmp, wt.fmt)]
    /\ wt' = [wt EXCEPT !.pc = "watching"]
    /\ UNCHANGED <<writers, watching, srcHolds, out, et>>
    /\ RaceFrame

\* if !mds.watching
a_readWatching ==
    /\ wt.pc = "watching"
    /\ wt' = [wt EXCEPT !.pc = IF watching THEN "done" ELSE "srcWatch"]
    /\ UNCHANGED <<writers, watchers, watching, srcHolds, out, et>>
    /\ RaceFrame

\* mds.source.Watch(mds.emit)
a_srcWatch ==
    /\ wt.pc = "srcWatch"
    /\ srcHolds' = TRUE
    /\ srcWatchCalls' = srcWatchCalls + 1
    /\ et' = [et EXCEPT !.rereg = (et.pc \notin {"start", "done"})]
    /\ wt' = [wt EXCEPT !.pc = "setWatching"]
    /\ UNCHANGED <<writers, watchers, watching, out>>
    /\ UNCHANGED <<nextW, nEmit, last, cmpVars, bufVars, cfgVars, ww, srvVars, connVars>>

\* mds.watching = true; return nil
a_setWatching ==
    /\ wt.pc = "setWatching"
    /\ watching' = TRUE
    /\ wt' = [wt EXCEPT !.pc = "done"]
    /\ UNCHANGED <<writers, watchers, srcHolds, out, et>>
    /\ RaceFrame

\* --- the emit goroutine
\* The format whose marshaledWatcher.emit is running.
EtFmt == et.order[et.k]

\* marshaledWatcher.emit returned r: on to the next format of the loop.
EtNext(r) ==
    [et EXCEPT !.any = et.any \/ r, !.k = et.k + 1,
               !.pc = IF et.k + 1 > Len(et.order) THEN "fin" ELSE "gw"]

\* HandleItem of item watcher j returned: on to the next item watcher.
EtHandled(failedIt) ==
    [et EXCEPT !.wfailed = IF failedIt THEN Append(et.wfailed, et.j) ELSE et.wfailed,
               !.j = et.j + 1, !.pc = "handle"]

\* if !mds.watching { return false }; the loop over mds.watchers starts.
b_start(order) ==
    /\ et.pc = "start"
    /\ et' = IF ~watching THEN [et EXCEPT !.ret = FALSE, !.pc = "ret"]
             ELSE [et EXCEPT !.order = order, !.k = 1, !.any = FALSE, !.pc = "gw"]
    /\ UNCHANGED <<writers, watchers, watching, srcHolds, out, wt>>
    /\ RaceFrame

\* marshaledWatcher.emit: if len(gw.watchers) == 0; MarshalItem.
b_gw(mErr) ==
    /\ et.pc = "gw"
    /\ mErr => Len(watchers[EtFmt]) > 0
    /\ et' = IF Len(watchers[EtFmt]) = 0 \/ mErr
             THEN [EtNext(FALSE) EXCEPT !.encErr = et.encErr \/ mErr]
             ELSE [et EXCEPT !.pc = "rangeIws"]
    /\ UNCHANGED <<writers, watchers, watching, srcHolds, out, wt>>
    /\ RaceFrame

\* for i, iw := range gw.watchers
b_rangeWatchers ==
    /\ et.pc = "rangeIws"
    /\ et' = [et EXCEPT !.iws = watchers[EtFmt], !.j = 1, !.wfailed = <<>>, !.pc = "handle"]
    /\ UNCHANGED <<writers, watchers, watching, srcHolds, out, wt>>
    /\ RaceFrame

\* HandleItem: if len(dfw.writers) == 0; FrameItem.  After the last item
\* watcher: if len(failed) == 0 { return true }.
b_handle(fErr) ==
    /\ et.pc = "handle"
    /\ fErr => et.j <= Len(et.iws) /\ Len(writers[EtFmt]) > 0
    /\ et' = IF et.j > Len(et.iws)
             THEN IF Len(et.wfailed) = 0 THEN EtNext(TRUE) ELSE [et EXCEPT !.pc = "rangeIws2"]
             ELSE IF Len(writers[EtFmt]) = 0 \/ fErr
                  THEN [EtHandled(TRUE) EXCEPT !.encErr = et.encErr \/ fErr]
             ELSE [et EXCEPT !.pc = "rangeWs"]
    /\ UNCHANGED <<writers, watchers, watching, srcHolds, out, wt>>
    /\ RaceFrame

\* writeToAll: for i, w := range dfw.writers
b_rangeWriters ==
    /\ et.pc = "rangeWs"
    /\ et' = [et EXCEPT !.ws = writers[EtFmt], !.pc = "write"]
    /\ UNCHANGED <<writers, watchers, watching, srcHolds, out, wt>>
    /\ RaceFrame

\* The Writes of the first loop; if len(failed) == 0 { return nil }.
b_write(F) ==
    /\ et.pc = "write"
    /\ LET r == WriteLoop(et.ws, 1, FrameItem(EtFmt, MarshalItem(EtFmt, 1)), F, out, <<>>)
       IN  /\ out' = r.out
           /\ et' = IF Len(r.failed) = 0 THEN EtHandled(FALSE)
                    ELSE [et EXCEPT !.failed = r.failed, !.pc = "rangeWs2",
                                    !.failedW = et.failedW \cup {et.ws[i] : i \in F}]
    /\ UNCHANGED <<writers, watchers, watching, srcHolds, wt>>
    /\ RaceFrame

\* The second for i, w := range dfw.writers
b_rangeWriters2 ==
    /\ et.pc = "rangeWs2"
    /\ et' = [et EXCEPT !.ws = writers[EtFmt], !.pc = "tail"]
    /\ UNCHANGED <<writers, watchers, watching, srcHolds, out, wt>>
    /\ RaceFrame

\* The loop up to okay = append(okay, dfw.writers[j:]...), which reads the
\* field again.
b_tail ==
    /\ et.pc = "tail"
    /\ et' = [et EXCEPT !.okay = CompactLoop(et.ws, writers[EtFmt], 1, et.failed, <<>>),
                        !.pc = "assign"]
    /\ UNCHANGED <<writers, watchers, watching, srcHolds, out, wt>>
    /\ RaceFrame

\* dfw.writers = okay
b_assign ==
    /\ et.pc = "assign"
    /\ writers' = [writers EXCEPT ![EtFmt] = et.okay]
    /\ et' = [et EXCEPT !.pc = "lenWs"]
    /\ UNCHANGED <<watchers, watching, srcHolds, out, wt>>
    /\ RaceFrame

\* if len(dfw.writers) == 0 { return errDefaultFrameWatcherDone }
b_lenWriters ==
    /\ et.pc = "lenWs"
    /\ et' = EtHandled(Len(writers[EtFmt]) = 0)
    /\ UNCHANGED <<writers, watchers, watching, srcHolds, out, wt>>
    /\ RaceFrame

\* marshaledWatcher.emit: the second for i, iw := range gw.watchers
b_rangeWatchers2 ==
    /\ et.pc = "rangeIws2"
    /\ et' = [et EXCEPT !.iws = watchers[EtFmt], !.pc = "tailIws"]
    /\ UNCHANGED <<writers, watchers, watching, srcHolds, out, wt>>
    /\ RaceFrame

\* The loop up to okay = append(okay, gw.watchers[j:]...)
b_tailWatchers ==
    /\ et.pc = "tailIws"
    /\ et' = [et EXCEPT !.okay = CompactLoop(et.iws, watchers[EtFmt], 1, et.wfailed, <<>>),
                        !.pc = "assignIws"]
    /\ UNCHANGED <<writers, watchers, watching, srcHolds, out, wt>>
    /\ RaceFrame

\* gw.watchers = okay
b_assignWatchers ==
    /\ et.pc = "assignIws"
    /\ watchers' = [watchers EXCEPT ![EtFmt] = et.okay]
    /\ et' = [et EXCEPT !.pc = "lenIws"]
    /\ UNCHANGED <<writers, watching, srcHolds, out, wt>>
    /\ RaceFrame

\* return len(gw.watchers) != 0
b_lenWatchers ==
    /\ et.pc = "lenIws"
    /\ et' = EtNext(Len(watchers[EtFmt]) # 0)
    /\ UNCHANGED <<writers, watchers, watching, srcHolds, out, wt>>
    /\ RaceFrame

\* if !any { mds.watching = false }
b_fin ==
    /\ et.pc = "fin"
    /\ watching' = IF et.any THEN watching ELSE FALSE
    /\ et' = [et EXCEPT !.ret = et.any, !.pc = "ret"]
    /\ UNCHANGED <<writers, watchers, srcHolds, out, wt>>
    /\ RaceFrame

\* emit returns to the source.  On false the source stops calling the watcher
\* it called; keep tells whether it still holds the one registered meanwhile.
b_ret(keep) ==
    /\ et.pc = "ret"
    /\ keep => (~et.ret /\ et.rereg)
    /\ srcHolds' = IF et.ret THEN srcHolds ELSE keep
    /\ et' = [et EXCEPT !.pc = "done"]
    /\ UNCHANGED <<writers, watchers, watching, out, wt>>
    /\ RaceFrame

NextRace ==
    \/ \E d \in {Nil, Snap}, e \in {Nil, "marshal", "frame", "write"} : a_init(d, e)
    \/ a_readWriters
    \/ a_storeWriters
    \/ a_len
    \/ a_readWatchers
    \/ a_storeWatchers
    \/ a_readWatching
    \/ a_srcWatch
    \/ a_setWatching
    \/ \E order \in FormatOrders : b_start(order)
    \/ \E mErr \in BOOLEAN : b_gw(mErr)
    \/ b_rangeWatchers
    \/ \E fErr \in BOOLEAN : b_handle(fErr)
    \/ b_rangeWriters
    \/ \E F \in SUBSET (1..Len(et.ws)) : b_write(F)
    \/ b_rangeWriters2
    \/ b_tail
    \/ b_assign
    \/ b_lenWriters
    \/ b_rangeWatchers2
    \/ b_tailWatchers
    \/ b_assignWatchers
    \/ b_lenWatchers
    \/ b_fin
    \/ \E keep \in BOOLEAN : b_ret(keep)

SpecRace == RaceInit /\ [][NextRace]_vars

\* ------------------------------------------ two Watch calls, two goroutines
\* Every read and every write of a field of the multiplexer is a step of its
\* own; the code takes no lock.
\* The multiplexer after n Watch("json", w) calls that found no initial data,
\* with two Watch calls on the names n1 and n2 about to run side by side.
Watch2Init ==
    /\ CmpIdle /\ BufIdle /\ RaceIdle /\ CfgDefault /\ SrvIdle /\ ConnIdle
    /\ \E n \in 0..(NumWriters - 2), n1, n2 \in FormatNames :
          /\ writers = [g \in Formats |-> IF g = "json" THEN [i \in 1..n |-> i] ELSE <<>>]
          /\ watchers = [g \in Formats |-> IF g = "json" /\ n > 0 THEN <<"json">> ELSE <<>>]
          /\ watching = (n > 0)
          /\ srcHolds = (n > 0)
          /\ srcWatchCalls = (IF n > 0 THEN 1 ELSE 0)
          /\ nextW = n + 3
          /\ ww = [t \in 1..2 |->
                     [pc |-> "lookup", name |-> IF t = 1 THEN n1 ELSE n2, fmt |-> "",
                      w |-> n + t, err |-> Nil, tmp |-> <<>>]]
    /\ out = [w \in Writers |-> <<>>]
    /\ nEmit = 0
    /\ last = NoCall

Watch2Frame ==
    UNCHANGED <<nextW, nEmit, last, cmpVars, bufVars, raceVars, cfgVars, srvVars, connVars>>

\* watcher, ok := mds.watchers[strings.ToLower(formatName)]; the map is
\* written by NewMarshaledDataSource only.
w2_lookup(t) ==
    /\ ww[t].pc = "lookup"
    /\ LET f == ToLower(ww[t].name)
       IN  ww' = [ww EXCEPT ![t] =
                     IF f \in DOMAIN watchers
                     THEN [@ EXCEPT !.fmt = f, !.pc = "init"]
                     ELSE [@ EXCEPT !.err = "unsupported", !.pc = "done"]]
    /\ UNCHANGED <<writers, watchers, watching, srcHolds, srcWatchCalls, out>>
    /\ Watch2Frame

\* dfw.init up to the append: the snapshot, if any, is marshaled, framed and
\* written to w.
w2_init(t, data, e) ==
    /\ ww[t].pc = "init"
    /\ data = Nil => e = Nil
    /\ LET r == dfw_init(ww[t].fmt, <<>>, data, ww[t].w, e, out)
       IN  /\ out' = r.out
           /\ ww' = [ww EXCEPT ![t] = [@ EXCEPT !.err = r.err,
                                                !.pc = IF r.err = Nil THEN "append"
                                                                      ELSE "done"]]
    /\ UNCHANGED <<writers, watchers, watching, srcHolds, srcWatchCalls>>
    /\ Watch2Frame

\* append(dfw.writers, w): the read of dfw.writers.
w2_readWriters(t) ==
    /\ ww[t].pc = "append"
    /\ ww' = [ww EXCEPT ![t] = [@ EXCEPT !.tmp = writers[ww[t].fmt], !.pc = "store"]]
    /\ UNCHANGED <<writers, watchers, watching, srcHolds, srcWatchCalls, out>>
    /\ Watch2Frame

\* dfw.writers = append(...): the write.
w2_storeWriters(t) ==
    /\ ww[t].pc = "store"
    /\ writers' = [writers EXCEPT ![ww[t].fmt] = Append(ww[t].tmp, ww[t].w)]
    /\ ww' = [ww EXCEPT ![t] = [@ EXCEPT !.pc = "len"]]
    /\ UNCHANGED <<watchers, watching, srcHolds, srcWatchCalls, out>>
    /\ Watch2Frame

\* if len(gw.dfw.writers) == 1
w2_len(t) ==
    /\ ww[t].pc = "len"
    /\ ww' = [ww EXCEPT ![t] = [@ EXCEPT !.pc = IF Len(writers[ww[t].fmt]) = 1
                                                THEN "regRead" ELSE "watching"]]
    /\ UNCHANGED <<writers, watchers, watching, srcHolds, srcWatchCalls, out>>
    /\ Watch2Frame

\* append(gw.watchers, &gw.dfw): the read of gw.watchers.
w2_readWatchers(t) ==
    /\ ww[t].pc = "regRead"
    /\ ww' = [ww EXCEPT ![t] = [@ EXCEPT !.tmp = watchers[ww[t].fmt], !.pc = "regStore"]]
    /\ UNCHANGED <<writers, watchers, watching, srcHolds, srcWatchCalls, out>>
    /\ Watch2Frame

\* gw.watchers = append(...): the write.
w2_storeWatchers(t) ==
    /\ ww[t].pc = "regStore"
    /\ watchers' = [watchers EXCEPT ![ww[t].fmt] = Append(ww[t].tmp, ww[t].fmt)]
    /\ ww' = [ww EXCEPT ![t] = [@ EXCEPT !.pc = "watching"]]
    /\ UNCHANGED <<writers, watching, srcHolds, srcWatchCalls, out>>
    /\ Watch2Frame

\* if !mds.watching
w2_readWatching(t) ==
    /\ ww[t].pc = "watching"
    /\ ww' = [ww EXCEPT ![t] = [@ EXCEPT !.pc = IF watching THEN "done" ELSE "srcWatch"]]
    /\ UNCHANGED <<writers, watchers, watching, srcHolds, srcWatchCalls, out>>
    /\ Watch2Frame

\* mds.source.Watch(mds.emit)
w2_srcWatch(t) ==
    /\ ww[t].pc = "srcWatch"
    /\ srcHolds' = TRUE
    /\ srcWatchCalls' = srcWatchCalls + 1
    /\ ww' = [ww EXCEPT ![t] = [@ EXCEPT !.pc = "setWatching"]]
    /\ UNCHANGED <<writers, watchers, watching, out>>
    /\ Watch2Frame

\* mds.watching = true; return nil
w2_setWatching(t) ==
    /\ ww[t].pc = "setWatching"
    /\ watching' = TRUE
    /\ ww' = [ww EXCEPT ![t] = [@ EXCEPT !.pc = "done"]]
    /\ UNCHANGED <<writers, watchers, srcHolds, srcWatchCalls, out>>
    /\ Watch2Frame

NextWatch2 ==
    \E t \in 1..2 :
       \/ w2_lookup(t)
       \/ \E d \in {Nil, Snap}, e \in {Nil, "marshal", "frame", "write"} : w2_init(t, d, e)
       \/ w2_readWriters(t)
       \/ w2_storeWriters(t)
       \/ w2_len(t)
       \/ w2_readWatchers(t)
       \/ w2_storeWatchers(t)
       \/ w2_readWatching(t)
       \/ w2_srcWatch(t)
       \/ w2_setWatching(t)

SpecWatch2 == Watch2Init /\ [][NextWatch2]_vars

\* ------------------------------------------------------ indirectServer
\* errNoServer
ErrNoServer == "no server configured"

\* The ConfiguredServer, once there is one.
Srv == "srv"

\* indirectServer.Addr: srv is *(is.cs), r what srv.Addr() returns.
Addr(srv, r) ==
    IF srv = Nil THEN [ret |-> Nil, reached |-> FALSE]
    ELSE [ret |-> r, reached |-> TRUE]

\* A StartOn that reports success when there is no server.
StartOnSilent(srv, r) ==
    IF srv = Nil THEN [ret |-> Nil, reached |-> FALSE]
    ELSE [ret |-> r, reached |-> TRUE]

\* indirectServer.StartOn: r is what srv.StartOn(laddr) returns.
StartOn(srv, r) ==
    IF srv = Nil THEN [ret |-> ErrNoServer, reached |-> FALSE]
    ELSE [ret |-> r, reached |-> TRUE]

\* indirectServer.Stop: r is what srv.Stop() returns.
Stop(srv, r) ==
    IF srv = Nil THEN [ret |-> ErrNoServer, reached |-> FALSE]
    ELSE [ret |-> r, reached |-> TRUE]

\* A call through the handle, with its result res.
is_Call(op, arg, r, res) ==
    /\ nOps < MaxOps
    /\ nOps' = nOps + 1
    /\ srvLog' = IF res.reached THEN Append(srvLog, <<op, arg>>) ELSE srvLog
    /\ isLast' = [op |-> op, arg |-> arg, srv |-> theServer, r |-> r, ret |-> res.ret,
                  reached |-> res.reached, preLog |-> srvLog]
    /\ UNCHANGED theServer
    /\ UNCHANGED <<mdsVars, cmpVars, bufVars, raceVars, cfgVars, ww, connVars>>

is_Addr(r) == is_Call("Addr", "", r, Addr(theServer, r))

is_StartOn(laddr, r) == is_Call("StartOn", laddr, r, StartOn(theServer, r))

is_Stop(r) == is_Call("Stop", "", r, Stop(theServer, r))

\* The server is configured: theServer is set.
srv_Set ==
    /\ theServer = Nil
    /\ theServer' = Srv
    /\ UNCHANGED <<srvLog, isLast, nOps>>
    /\ UNCHANGED <<mdsVars, cmpVars, bufVars, raceVars, cfgVars, ww, connVars>>

NextSrv ==
    \/ \E r \in {Nil, "addr"} : is_Addr(r)
    \/ \E laddr \in {":0", ":4040"}, r \in {Nil, "listen error"} : is_StartOn(laddr, r)
    \/ \E r \in {Nil, "stop error"} : is_Stop(r)
    \/ srv_Set

SrvInit == MdsInit /\ CmpIdle /\ BufIdle /\ RaceIdle /\ CfgDefault /\ WatchIdle /\ SrvIdle /\ ConnIdle

SpecSrv == SrvInit /\ [][NextSrv]_vars

\* ------------------------------------------- NewServer / respDetector
\* The bytes a client may send: two RESP type tags and the G of an HTTP GET.
Bytes == {"*", "+", "G"}

\* The first bytes of the RESP types.
RespTags == {"+", "-", ":", "$", "*"}

\* resp.IsFirstByteRespTag
IsFirstByteRespTag(b) == Len(b) >= 1 /\ b[1] \in RespTags

\* A detector whose handler is handed the connection without the
\* bufio.Reader that holds the peeked bytes.
respDetectorConnOnly ==
    [Needed |-> 1, Test |-> "IsFirstByteRespTag", Handler |-> "resp", Reader |-> "conn"]

\* respDetector: one byte needed, tested by resp.IsFirstByteRespTag; the
\* handler runs a RedisConnection on (conn, bufr).
respDetector ==
    [Needed |-> 1, Test |-> "IsFirstByteRespTag", Handler |-> "resp", Reader |-> "bufr"]

\* stacked.DefaultHTTPHandler: needs no byte, takes every connection, and
\* serves HTTP on (conn, bufr).
DefaultHTTPHandler ==
    [Needed |-> 0, Test |-> "any", Handler |-> "http", Reader |-> "bufr"]

\* NewServer: the RESP detector first, HTTP as the default.
NewServer == <<respDetector, DefaultHTTPHandler>>

\* Whether detector d takes a connection that starts with the bytes b.
Test(d, b) == IF d.Test = "any" THEN TRUE ELSE IsFirstByteRespTag(b)

\* The most bytes any detector needs.
NeededMax ==
    CHOOSE n \in 0..MaxStream :
        /\ \E i \in 1..Len(NewServer) : NewServer[i].Needed = n
        /\ \A i \in 1..Len(NewServer) : NewServer[i].Needed <= n

\* The first detector that takes a connection with the peeked bytes b.
Detect(b) ==
    LET i == CHOOSE i \in 1..Len(NewServer) :
                 /\ Test(NewServer[i], SubSeq(b, 1, NewServer[i].Needed))
                 /\ \A j \in 1..(i - 1) : ~Test(NewServer[j], SubSeq(b, 1, NewServer[j].Needed))
    IN  NewServer[i]

\* A client connects and sends stream.
srv_accept(stream) ==
    /\ conn.state = "none"
    /\ conn' = [NoConn EXCEPT !.state = "Detecting", !.stream = stream]
    /\ UNCHANGED <<mdsVars, cmpVars, bufVars, raceVars, cfgVars, ww, srvVars>>

\* bufr.Peek(n) for the bytes the detectors need: the bufio.Reader reads k
\* bytes, at least n, from the socket into its buffer and returns the first n
\* without consuming them.
srv_peek(k) ==
    /\ conn.state = "Detecting"
    /\ conn.filled = 0
    /\ k >= NeededMax /\ k >= 1 /\ k <= Len(conn.stream)
    /\ conn' = [conn EXCEPT !.sock = k, !.filled = k,
                            !.buf = SubSeq(conn.stream, 1, k),
                            !.peeked = SubSeq(conn.stream, 1, NeededMax)]
    /\ UNCHANGED <<mdsVars, cmpVars, bufVars, raceVars, cfgVars, ww, srvVars>>

\* The first detector whose Test accepts the peeked bytes gets the
\* connection.
srv_dispatch ==
    /\ conn.state = "Detecting"
    /\ conn.filled > 0
    /\ LET d == Detect(conn.peeked)
       IN  conn' = [conn EXCEPT !.state = "Dispatched", !.handler = d.Handler,
                                !.reader = d.Reader, !.dispatched = conn.dispatched + 1]
    /\ UNCHANGED <<mdsVars, cmpVars, bufVars, raceVars, cfgVars, ww, srvVars>>

\* The handler reads n bytes: through bufr (its buffer first, the socket
\* when the buffer is empty) or from the connection itself.
h_read(n) ==
    /\ conn.state = "Dispatched"
    /\ n >= 1
    /\ IF conn.reader = "bufr" /\ Len(conn.buf) > 0
       THEN /\ n <= Len(conn.buf)
            /\ conn' = [conn EXCEPT !.got = conn.got \o SubSeq(conn.buf, 1, n),
                                    !.buf = SubSeq(conn.buf, n + 1, Len(conn.buf))]
       ELSE /\ conn.sock + n <= Len(conn.stream)
            /\ conn' = [conn EXCEPT !.got = conn.got
                                              \o SubSeq(conn.stream, conn.sock + 1, conn.sock + n),
                                    !.sock = conn.sock + n]
    /\ UNCHANGED <<mdsVars, cmpVars, bufVars, raceVars, cfgVars, ww, srvVars>>

NextConn ==
    \/ \E stream \in UNION {[1..n -> Bytes] : n \in 1..MaxStream} : srv_accept(stream)
    \/ \E k \in 1..MaxStream : srv_peek(k)
    \/ srv_dispatch
    \/ \E n \in 1..MaxStream : h_read(n)

ConnInit == MdsInit /\ CmpIdle /\ BufIdle /\ RaceIdle /\ CfgDefault /\ WatchIdle /\ SrvIdle /\ ConnIdle

SpecConn == ConnInit /\ [][NextConn]_vars

\* ======================================================== properties
\* What a Write call logged in out carried.
IsInit(entry) == entry.buf[3][1] = "init"

IsItem(entry) == entry.buf[3][1] = "item"

ItemOf(entry) == entry.buf[3][3]

ItemFrame(f, data) == FrameItem(f, MarshalItem(f, data))

InitFrame(f, data) == FrameItem(f, MarshalInit(f, data))

AllEmpty(ws) == \A f \in Formats : ws[f] = <<>>

\* The number of Write calls on w that carried buf.
Times(w, buf) == Cardinality({k \in 1..Len(out[w]) : out[w][k].buf = buf})

\* C2: once no format channel has a sink (before the call, or after the
\* call removed the last ones) emit returns false and watching is false; a
\* successful Watch leaves watching true and the source holding mds.emit,
\* having called source.Watch if watching was false, and, coming from the
\* idle state, leaves the fanout registered with the new sink; and an emit
\* on a watching multiplexer writes the framed item to every sink of every
\* registered fanout whose format marshals and frames the item.
IdleUnsubscribeRearm ==
    /\ (last.op = "emit" /\ (AllEmpty(last.pre) \/ AllEmpty(writers)))
          => (~last.ret /\ ~watching /\ ~srcHolds)
    /\ (last.op = "Watch" /\ last.err = Nil)
          => /\ watching /\ srcHolds
             /\ last.srcWatch = ~last.preWatching
             /\ AllEmpty(last.pre) =>
                   /\ writers[last.fmt] = <<last.w>>
                   /\ watchers[last.fmt] = <<last.fmt>>
                   /\ last.srcWatch
    /\ (last.op = "emit" /\ last.preWatching)
          => \A f \in Formats :
                (Len(last.preWatchers[f]) > 0 /\ ~last.mErr[f] /\ ~last.fErr[f])
                   => \A k \in 1..Len(last.pre[f]) :
                         LET log == out[last.pre[f][k]]
                         IN  /\ Len(log) > 0
                             /\ log[Len(log)] = [buf |-> ItemFrame(f, last.data),
                                                 ok |-> k \notin last.F[f]]

\* The source was subscribed, unsubscribed and subscribed again, and the sink
\* of the second subscription got the next item.
IdleRearmWitness ==
    /\ srcWatchCalls = 2
    /\ last.op = "emit" /\ last.ret
    /\ \E f \in Formats :
          /\ last.pre[f] = <<2>>
          /\ Len(out[2]) > 0
          /\ out[2][Len(out[2])] = [buf |-> ItemFrame(f, last.data), ok |-> TRUE]

\* C3: after writeToAll the writer list is the list before the call without
\* the positions whose Write failed, the others in their order, and as many
\* shorter as positions failed; the same for the item watchers compacted in
\* marshaledWatcher.emit.
CompactionCorrect ==
    cDone => /\ cWriters = RemoveIdx(cList, cF)
             /\ Len(cWriters) = Len(cList) - Cardinality(cF)
             /\ cWatchers = RemoveIdx(cList, cF)
             /\ Len(cWatchers) = Len(cList) - Cardinality(cF)

\* A list of three in which the first and the last position failed.
CompactionWitness ==
    /\ cDone /\ Len(cList) = 3 /\ cF = {1, 3}
    /\ cWriters = <<cList[2]>>

\* C7: a HandleItems call in which no sink and no framing fails has written
\* the framed items, each once and in the order of the call, as the last
\* Writes of every attached sink; and in what any sink was written the items
\* are in the order they were handed to the fanout.
FanoutOrder ==
    /\ (last.op = "HandleItems" /\ last.err = Nil /\ writers = last.pre)
          => \A k \in 1..Len(last.pre[FanFmt]) :
                LET w == last.pre[FanFmt][k]
                    n == Len(last.items)
                    log == out[w]
                IN  /\ Len(log) >= n
                    /\ SubSeq(log, Len(log) - n + 1, Len(log))
                          = [j \in 1..n |-> [buf |-> ItemFrame(FanFmt, last.items[j]),
                                             ok |-> TRUE]]
                    /\ \A j \in 1..n : Times(w, ItemFrame(FanFmt, last.items[j])) = 1
    /\ \A w \in Writers : \A j, k \in 1..Len(out[w]) :
          (j < k /\ IsItem(out[w][j]) /\ IsItem(out[w][k]))
             => ItemOf(out[w][j]) < ItemOf(out[w][k])

\* HandleItems of three items on two sinks, all written.
FanoutOrderWitness ==
    /\ last.op = "HandleItems" /\ last.err = Nil /\ writers = last.pre
    /\ Len(last.items) = 3
    /\ Len(writers[FanFmt]) >= 2

\* C8: a successful Watch has written the framed snapshot, when there is one,
\* as the sink's first Write and nothing otherwise, and has appended the sink
\* to the writer list; a failed Watch leaves the writer lists as they were;
\* and no sink is ever written its snapshot after anything else.
SnapshotFirst ==
    /\ (last.op = "Watch" /\ last.fmt \in Formats)
          => IF last.err = Nil
             THEN /\ writers[last.fmt] = Append(last.pre[last.fmt], last.w)
                  /\ out[last.w] = IF last.data # Nil
                                   THEN <<[buf |-> InitFrame(last.fmt, last.data), ok |-> TRUE]>>
                                   ELSE <<>>
             ELSE /\ writers = last.pre
                  /\ \A f \in Formats : \A k \in 1..Len(writers[f]) : writers[f][k] # last.w
    /\ \A w \in Writers : \A k \in 1..Len(out[w]) : IsInit(out[w][k]) => k = 1

\* A sink that got its snapshot and then a live item.
SnapshotFirstWitness ==
    /\ last.op = "emit"
    /\ \E w \in Writers :
          /\ Len(out[w]) >= 2
          /\ IsInit(out[w][1]) /\ out[w][1].ok
          /\ IsItem(out[w][2])

\* C9: emit returns false exactly when no format channel has a sink left
\* after the call, and watching is what it returned.
EmitFalseIffNoSinks ==
    last.op = "emit" =>
        /\ last.ret = ~AllEmpty(writers)
        /\ watching = last.ret

\* C10: a HandleItem call that framed its item has made one Write of the
\* framed item to every sink that was attached when it started, the failing
\* ones included; and a Write that failed is the last Write a sink gets.
PartialFailureIsolation ==
    /\ (last.op = "HandleItem" /\ last.err # "frame")
          => \A k \in 1..Len(last.pre[FanFmt]) :
                LET w == last.pre[FanFmt][k]
                    log == out[w]
                IN  /\ Len(log) > 0
                    /\ log[Len(log)] = [buf |-> ItemFrame(FanFmt, last.data),
                                        ok |-> k \notin last.F[FanFmt]]
                    /\ Times(w, ItemFrame(FanFmt, last.data)) = 1
    /\ \A w \in Writers : \A k \in 1..Len(out[w]) : k < Len(out[w]) => out[w][k].ok

\* The first of three sinks failed an item; a later item was written to the
\* two after it and not to the first.
PartialFailureWitness ==
    /\ last.op = "HandleItem"
    /\ last.data >= 2
    /\ Len(last.pre[FanFmt]) = 2
    /\ \E w \in Writers :
          /\ Len(out[w]) > 0
          /\ ~out[w][Len(out[w])].ok
          /\ ItemOf(out[w][Len(out[w])]) = last.data - 1
          /\ w < last.pre[FanFmt][1]

\* A Write call that has left the critical section.
Decided(p) == wr[p].pc \in {"send", "ret"}

\* C4: among the Writes of at least one byte accepted since the last drain
\* (or since the buffer was made) exactly one chose to notify, and none when
\* there was no such Write; a Write that found pending set does not notify;
\* at most one reference is in the ready channel; and each drain ran after
\* exactly one send on ready since the drain before it.
Coalescing ==
    /\ decSince = (IF okSince >= 1 THEN 1 ELSE 0)
    /\ sentSince <= decSince
    /\ \A p \in Producers : (Decided(p) /\ wr[p].found) => ~wr[p].send
    /\ \A p \in Producers : wr[p].pc = "send" => (~wr[p].found /\ wr[p].n > 0)
    /\ ready <= 1
    /\ nDrains >= 1 => drainSaw = 1
    /\ (nDrains = 0 /\ okSince >= 1 /\ \A p \in Producers : wr[p].pc \in {"idle", "ret"})
          => nSent = 1

\* Two Writes that were both called on the idle buffer have returned, before
\* any drain, and one reference was sent.
CoalescingWitness ==
    /\ nDrains = 0
    /\ \A p \in {1, 2} : /\ wr[p].pc = "ret" /\ wr[p].idleAtCall
                         /\ wr[p].err = Nil /\ wr[p].n > 0
    /\ nSent = 1
    /\ ready = 1

\* C5: right after a drain the buffer is empty and pending is false; the
\* first Write after a drain, when it appends at least one byte, chooses to
\* notify, and has made exactly one send on ready when it returns.
DrainCompleteness ==
    /\ lastCS = "drain" => (Len(cbBuf) = 0 /\ ~cbPending)
    /\ \A p \in Producers :
          (Decided(p) /\ wr[p].first /\ wr[p].err = Nil /\ wr[p].n > 0)
             => /\ wr[p].send
                /\ wr[p].pc = "ret" => wr[p].sentAtRet = wr[p].sentAtCS + 1

\* A Write, its notification, a drain, and the next Write with its own
\* notification.
DrainCompletenessWitness ==
    /\ nDrains = 1
    /\ nSent = 2
    /\ \E p \in Producers : wr[p].pc = "ret" /\ wr[p].first /\ wr[p].send

\* C6: a Write called after close() returned fails with errBufClosed, returns
\* 0, appends nothing and does not notify; every Write either appended all of
\* its bytes and returned their number with no error, or appended nothing and
\* returned 0 and errBufClosed; and the bytes of the Writes that returned no
\* error are those drained so far followed by those in the buffer.
CloseSemantics ==
    /\ \A p \in Producers :
          (Decided(p) /\ wr[p].afterClose)
             => (wr[p].err = "closed" /\ wr[p].n = 0 /\ wr[p].grew = 0 /\ ~wr[p].send)
    /\ \A p \in Producers :
          Decided(p) =>
             \/ wr[p].err = Nil /\ wr[p].n = Len(wr[p].pay) /\ wr[p].grew = Len(wr[p].pay)
             \/ wr[p].err = "closed" /\ wr[p].n = 0 /\ wr[p].grew = 0 /\ ~wr[p].send
    /\ accepted = drained \o cbBuf

\* One Write was in flight when close() was called and completed; another
\* was called after close() returned and failed.
CloseSemanticsWitness ==
    \E p, q \in Producers :
        /\ wr[p].pc = "ret" /\ wr[p].atClose /\ wr[p].err = Nil /\ wr[p].n > 0
        /\ wr[q].pc = "ret" /\ wr[q].afterClose /\ wr[q].err = "closed"

\* C1: when a Watch and an emit that ran side by side have both returned,
\* Watch returned nil, and the emit met no marshal or frame error and no failed
\* Write to the new writer w, then w is in its format's writer list, that
\* format's fanout is among the item watchers, and watching is true exactly
\* when the source holds mds.emit.
AttachNotLost ==
    (wt.pc = "done" /\ wt.err = Nil /\ et.pc = "done" /\ ~et.encErr /\ wt.w \notin et.failedW)
       => /\ \E k \in 1..Len(writers[wt.fmt]) : writers[wt.fmt][k] = wt.w
          /\ \E k \in 1..Len(watchers[wt.fmt]) : watchers[wt.fmt][k] = wt.fmt
          /\ watching = srcHolds

GetRetainsNothing ==
    /\ writers = last.pre
    /\ watchers = last.preWatchers
    /\ watching = last.preWatching
    /\ srcWatchCalls = last.preCalls
    /\ \A f \in DOMAIN writers : \A k \in 1..Len(writers[f]) : writers[f][k] # last.w

\* C12 as stated: Get of an unknown name fails with ErrUnsupportedFormat
\* without calling source.Get, fails with ErrNotGetable without a Write when
\* source.Get() returns nil, and otherwise makes exactly one Write, of the
\* unframed MarshalGet result; and it retains nothing.
GetOneShot ==
    last.op = "Get" =>
        /\ last.fmt \notin formats => (last.err = "unsupported" /\ ~last.srcGet)
        /\ (last.fmt \in formats /\ last.data = Nil)
              => (last.err = "notgetable" /\ out[last.w] = <<>>)
        /\ (last.fmt \in formats /\ last.data # Nil)
              => /\ Len(out[last.w]) = 1
                 /\ out[last.w][1].buf = MarshalGet(last.fmt, last.data)
        /\ GetRetainsNothing

\* C12, amended: as above, but when MarshalGet fails Get returns that error
\* and makes no Write; it makes exactly one Write, of the unframed MarshalGet
\* result, when MarshalGet succeeds, and returns that Write's error.
GetOneShotMarshaled ==
    last.op = "Get" =>
        /\ last.fmt \notin formats
              => (last.err = "unsupported" /\ ~last.srcGet /\ out[last.w] = <<>>)
        /\ (last.fmt \in formats /\ last.data = Nil)
              => (last.err = "notgetable" /\ last.srcGet /\ out[last.w] = <<>>)
        /\ (last.fmt \in formats /\ last.data # Nil /\ last.err = "marshal")
              => out[last.w] = <<>>
        /\ (last.fmt \in formats /\ last.data # Nil /\ last.err # "marshal")
              => /\ out[last.w] = <<[buf |-> MarshalGet(last.fmt, last.data),
                                     ok |-> last.err = Nil]>>
                 /\ last.err \in {Nil, "write"}
        /\ GetRetainsNothing

\* A Get that wrote its data while a sink was attached and the source
\* subscribed.
GetOneShotWitness ==
    /\ last.op = "Get" /\ last.err = Nil
    /\ Len(out[last.w]) = 1
    /\ watching
    /\ \E f \in DOMAIN writers : Len(writers[f]) = 1

\* C14: Get and Watch return ErrUnsupportedFormat exactly for the names that
\* are not among those Formats() returns, letter case aside.
DefaultFormatsUsable ==
    last.op \in {"Get", "Watch"} =>
        (last.err = "unsupported"
            <=> ToLower(last.name) \notin {ToLower(formatNames[k]) : k \in 1..Len(formatNames)})

\* C13: a Watch call has called source.Watch(mds.emit), once, exactly when it
\* returned nil and found watching false; and over any Watch or emit call
\* the number of source.Watch calls grew by one when watching went from
\* false to true and not at all otherwise.
SourceWatchOnce ==
    last.op \in {"Watch", "emit"} =>
        /\ srcWatchCalls = last.preCalls
                              + (IF ~last.preWatching /\ watching THEN 1 ELSE 0)
        /\ last.op = "Watch"
              => /\ last.srcWatch <=> (last.err = Nil /\ ~last.preWatching)
                 /\ last.srcWatch <=> (srcWatchCalls = last.preCalls + 1)
        /\ last.op = "emit" => ~last.srcWatch

\* The first sink of a second format was attached while the source was
\* already subscribed for the first format: one source.Watch call in all.
SourceWatchOnceWitness ==
    /\ last.op = "Watch" /\ last.err = Nil
    /\ last.preWatching
    /\ last.pre[last.fmt] = <<>>
    /\ \E g \in Formats : g # last.fmt /\ Len(writers[g]) = 1
    /\ srcWatchCalls = 1

\* A call through the handle reached the ConfiguredServer and returned what
\* the server returned.
Forwarded ==
    /\ isLast.reached
    /\ isLast.ret = isLast.r
    /\ srvLog = Append(isLast.preLog, <<isLast.op, isLast.arg>>)

\* C15 as stated: a call of Addr, StartOn or Stop while no server is set
\* returns errNoServer and reaches no server; with the server set it is
\* forwarded.
IndirectFailsUntilSet ==
    isLast.op # "none" =>
        IF isLast.srv = Nil
        THEN isLast.ret = ErrNoServer /\ ~isLast.reached /\ srvLog = isLast.preLog
        ELSE Forwarded

\* C15, amended: while no server is set StartOn and Stop return errNoServer
\* and Addr returns a nil address, and none reaches a server; with the
\* server set each call is forwarded.
IndirectGuardsUntilSet ==
    isLast.op # "none" =>
        IF isLast.srv = Nil
        THEN /\ isLast.ret = (IF isLast.op = "Addr" THEN Nil ELSE ErrNoServer)
             /\ ~isLast.reached
             /\ srvLog = isLast.preLog
        ELSE Forwarded

\* StartOn failed before the server was set; after it was set a later call
\* went through.
IndirectWitness ==
    /\ nOps >= 2
    /\ isLast.srv = Srv /\ isLast.reached
    /\ Len(srvLog) = 1

\* C16: one byte is peeked on a connection, the first the client sent; the
\* connection is dispatched once, to the RESP handler when that byte is a
\* RESP tag and to the HTTP handler otherwise; and what the handler has read
\* is the start of what the client sent, all of it once nothing is left in
\* the bufio.Reader and the socket.
ProtocolDetection ==
    /\ conn.dispatched <= 1
    /\ conn.state = "Detecting" => (conn.dispatched = 0 /\ conn.got = <<>>)
    /\ conn.state = "Dispatched"
          => /\ conn.peeked = <<conn.stream[1]>>
             /\ conn.dispatched = 1
             /\ conn.handler = (IF conn.stream[1] \in RespTags THEN "resp" ELSE "http")
             /\ Len(conn.got) <= Len(conn.stream)
             /\ conn.got = SubSeq(conn.stream, 1, Len(conn.got))
             /\ conn.got \o conn.buf = SubSeq(conn.stream, 1, conn.sock)

\* A RESP connection of three bytes, two of them pulled into the
\* bufio.Reader by the peek, that its handler has read to the end.
ProtocolDetectionWitness ==
    /\ conn.state = "Dispatched" /\ conn.handler = "resp"
    /\ Len(conn.stream) = 3 /\ conn.filled = 2
    /\ conn.got = conn.stream

\* C17: a Watch that returned an error (unknown format name, or a marshal,
\* framing or write failure of the snapshot) left every writer list and every
\* list of item watchers as it was, its writer in none of them, watching as
\* it was, and did not call source.Watch.
WatchErrorNoEffect ==
    (last.op = "Watch" /\ last.err # Nil) =>
        /\ writers = last.pre
        /\ watchers = last.preWatchers
        /\ \A f \in DOMAIN writers : \A k \in 1..Len(writers[f]) : writers[f][k] # last.w
        /\ watching = last.preWatching
        /\ ~last.srcWatch
        /\ srcWatchCalls = last.preCalls

\* A Watch whose snapshot Write failed, on a format that had one sink, with
\* the source subscribed.
WatchErrorWitness ==
    /\ last.op = "Watch" /\ last.err = "write"
    /\ out[last.w] = <<[buf |-> InitFrame(last.fmt, last.data), ok |-> FALSE]>>
    /\ Len(writers[last.fmt]) = 1
    /\ watching

\* C18: after any Watch or emit call a format's fanout is among the format's
\* item watchers exactly when the fanout holds a sink, and at most once; and
\* an emit on a watching multiplexer writes the item to every sink of every
\* format that marshals and frames it.
RegisteredIffSinks ==
    /\ \A f \in Formats :
          /\ Len(watchers[f]) <= 1
          /\ (\E k \in 1..Len(watchers[f]) : watchers[f][k] = f) <=> Len(writers[f]) > 0
    /\ (last.op = "emit" /\ last.preWatching)
          => \A f \in Formats :
                (~last.mErr[f] /\ ~last.fErr[f])
                   => \A k \in 1..Len(last.pre[f]) :
                         Times(last.pre[f][k], ItemFrame(f, last.data)) = 1

\* C19: what the drains returned so far, followed by what is in the buffer,
\* is the payloads of the Writes that returned no error, in the order they
\* held the lock; the last drain's slice is the end of what was drained; the
\* bytes of one Write lie together; and a Write that reported n bytes has
\* exactly n bytes there.
ByteConservation ==
    LET all == drained \o cbBuf
    IN  /\ all = accepted
        /\ nDrains >= 1
              => /\ Len(cbP) <= Len(drained)
                 /\ cbP = SubSeq(drained, Len(drained) - Len(cbP) + 1, Len(drained))
        /\ \A i, j \in 1..Len(all) :
              (i < j /\ all[i] = all[j]) => all[i + 1] = all[i]
        /\ \A q \in Producers :
              (Decided(q) /\ wr[q].err = Nil /\ wr[q].n > 0)
                 => Cardinality({i \in 1..Len(all) : all[i] = wr[q].pay[1]}) = wr[q].n

\* Two Writes of two bytes each went into the buffer before one drain
\* returned all four bytes.
ByteConservationWitness ==
    /\ nDrains = 1
    /\ Len(drained) = 4
    /\ drained[1] # drained[4]
    /\ cbBuf = <<>>

\* C20: when two Watch calls that ran side by side on one multiplexer have
\* both returned nil, each of the two writers is in its format's writer list,
\* the fanout of each of the two formats is among the item watchers exactly
\* once, and watching is true.
ConcurrentAttachNotLost ==
    (\A t \in 1..2 : ww[t].pc = "done" /\ ww[t].err = Nil)
       => /\ \A t \in 1..2 :
                /\ \E k \in 1..Len(writers[ww[t].fmt]) : writers[ww[t].fmt][k] = ww[t].w
                /\ Cardinality({k \in 1..Len(watchers[ww[t].fmt]) :
                                   watchers[ww[t].fmt][k] = ww[t].fmt}) = 1
          /\ watching

====
